---- MODULE Spec2Model ----
(***************************************************************************)
(* Model of pkg/docsonnet/load.go: the import resolver that serves the     *)
(* bundled doc-util library, and the Extract / Load / Transform /          *)
(* RenderWithJsonnet pipeline built on top of it.                          *)
(*                                                                         *)
(* Strings are sequences of one-character strings, so that                 *)
(* strings.HasPrefix, filepath.Base, filepath.Join and fmt.Sprintf are     *)
(* computed character by character as the Go library computes them.        *)
(***************************************************************************)
EXTENDS Integers, Sequences, FiniteSets, TLC

VARIABLES
    fs,                   \* paths of the files that exist on disk (cleaned, relative ones relative to the working directory)
    JPath,                \* Opts.JPath of the caller
    embeddedFS,           \* names of the files present in Opts.EmbeddedFS
    docUtilPathPrefixes,  \* the package-level prefix list
    resolver,             \* the importer under direct test
    imp,                  \* the last call of resolver.Import and what it returned
    inv,                  \* the invocations of the public entry points
    vms,                  \* the Jsonnet VMs allocated so far, by slot
    exited                \* the process was terminated (log.Fatalln or an unrecovered panic)

vars == <<fs, JPath, embeddedFS, docUtilPathPrefixes, resolver, imp, inv, vms, exited>>

----------------------------------------------------------------------------
(* String literals *)

DocUtilDir == <<"d","o","c","-","u","t","i","l">>
PrefixDocUtil == <<"d","o","c","-","u","t","i","l","/">>
PrefixGithub == <<"g","i","t","h","u","b",".","c","o","m","/","j","s","o","n","n","e","t","-","l","i","b","s","/","d","o","c","s","o","n","n","e","t","/","d","o","c","-","u","t","i","l","/">>
PrefixRender == <<".","/","r","e","n","d","e","r",".","l","i","b","s","o","n","n","e","t">>
MainLibsonnet == <<"m","a","i","n",".","l","i","b","s","o","n","n","e","t">>
RenderLibsonnet == <<"r","e","n","d","e","r",".","l","i","b","s","o","n","n","e","t">>
LoadLibsonnet == <<"l","o","a","d",".","l","i","b","s","o","n","n","e","t">>
DocUtilMain == PrefixDocUtil \o MainLibsonnet
DocUtilRender == PrefixDocUtil \o RenderLibsonnet
XLibsonnet == <<"x",".","l","i","b","s","o","n","n","e","t">>
BadLibsonnet == <<"b","a","d",".","l","i","b","s","o","n","n","e","t">>
OddLibsonnet == <<"o","d","d",".","l","i","b","s","o","n","n","e","t">>
InternalTag == <<"<","i","n","t","e","r","n","a","l",">","/">>
DoesNotExist == <<" ","d","o","e","s"," ","n","o","t"," ","e","x","i","s","t">>
ImportOpen == <<"(","i","m","p","o","r","t"," ","\"">>
ImportClose == <<"\"",")">>
ExtVarMain == <<"<","e","x","t","v","a","r",":","m","a","i","n",">">>
DirA == <<"/","a">>
DirB == <<"/","b">>
FromA == <<"/","a","/","m",".","l","i","b","s","o","n","n","e","t">>
FromLib == <<"/","b","/","l","i","b","/","m",".","l","i","b","s","o","n","n","e","t">>
SubDir == <<"s","u","b","/">>
LibDir == <<"l","i","b","/">>
NearMiss == <<"d","o","c","-","u","t","i","l","x","/">>
Slash == <<"/">>
Dot == <<".">>
DotDot == <<".",".">>

----------------------------------------------------------------------------
(* Go standard library: strings and path/filepath (unix) *)

HasPrefix(s, prefix) ==
    /\ Len(s) >= Len(prefix)
    /\ SubSeq(s, 1, Len(prefix)) = prefix

\* index of the last "/" of path, 0 when there is none
RECURSIVE LastSlash(_, _)
LastSlash(path, i) ==
    IF i = 0 THEN 0
    ELSE IF path[i] = "/" THEN i
    ELSE LastSlash(path, i - 1)

RECURSIVE StripTrailingSlashes(_)
StripTrailingSlashes(path) ==
    IF Len(path) > 0 /\ path[Len(path)] = "/"
    THEN StripTrailingSlashes(SubSeq(path, 1, Len(path) - 1))
    ELSE path

\* the last element of a path that has no trailing slash left
LastElement(stripped) ==
    IF stripped = <<>> THEN Slash
    ELSE SubSeq(stripped, LastSlash(stripped, Len(stripped)) + 1, Len(stripped))

Base(path) ==
    IF path = <<>> THEN Dot
    ELSE LastElement(StripTrailingSlashes(path))

\* filepath.Split: the directory part, up to and including the last "/"
SplitDir(path) == SubSeq(path, 1, LastSlash(path, Len(path)))

IsAbs(path) == HasPrefix(path, Slash)

\* the components of path between its slashes, empty ones included
RECURSIVE Components(_, _)
Components(path, cur) ==
    IF path = <<>> THEN <<cur>>
    ELSE IF Head(path) = "/" THEN <<cur>> \o Components(Tail(path), <<>>)
    ELSE Components(Tail(path), Append(cur, Head(path)))

RECURSIVE CleanComponents(_, _, _)
CleanComponents(comps, out, rooted) ==
    IF comps = <<>> THEN out
    ELSE LET c == Head(comps)
             next == IF c = <<>> \/ c = Dot THEN out
                     ELSE IF c = DotDot
                          THEN IF Len(out) > 0 /\ out[Len(out)] # DotDot
                               THEN SubSeq(out, 1, Len(out) - 1)
                               ELSE IF rooted THEN out ELSE Append(out, DotDot)
                          ELSE Append(out, c)
         IN CleanComponents(Tail(comps), next, rooted)

RECURSIVE JoinWith(_, _)
JoinWith(elems, sep) ==
    IF elems = <<>> THEN <<>>
    ELSE IF Len(elems) = 1 THEN Head(elems)
    ELSE Head(elems) \o sep \o JoinWith(Tail(elems), sep)

\* the cleaned path of the components that Clean kept
Assemble(out, rooted) ==
    IF rooted THEN Slash \o JoinWith(out, Slash)
    ELSE IF out = <<>> THEN Dot
    ELSE JoinWith(out, Slash)

Clean(path) ==
    IF path = <<>> THEN Dot
    ELSE Assemble(CleanComponents(Components(path, <<>>), <<>>, path[1] = "/"), path[1] = "/")

\* filepath.Join: leading empty elements are dropped, the rest is joined with "/" and cleaned
RECURSIVE Join(_)
Join(elems) ==
    IF elems = <<>> THEN <<>>
    ELSE IF Head(elems) = <<>> THEN Join(Tail(elems))
    ELSE Clean(JoinWith(elems, Slash))

----------------------------------------------------------------------------
(* Values *)

Nil == [kind |-> "nil", msg |-> <<>>]
Errorf(msg) == [kind |-> "errorf", msg |-> msg]
NotExistErr(name) == [kind |-> "fs.ErrNotExist", msg |-> name]
NoMatchErr(path) == [kind |-> "import-no-match", msg |-> path]

\* jsonnet.Contents: where the text came from stands for the text
EmptyContents == [origin |-> "none", name |-> <<>>]
MakeContents(origin, name) == [origin |-> origin, name |-> name]

\* embed.FS.ReadFile
ReadFile(efs, name) ==
    IF name \in efs
    THEN [data |-> MakeContents("embed", name), err |-> Nil]
    ELSE [data |-> EmptyContents, err |-> NotExistErr(name)]

RequiredResources == {LoadLibsonnet, RenderLibsonnet, DocUtilMain, DocUtilRender}

----------------------------------------------------------------------------
(* github.com/google/go-jsonnet FileImporter, as load.go uses it *)

\* tryPath: the file at dir/importedPath, or at importedPath itself when absolute
\* reading the file at absPath
readAt(files, absPath) ==
    [found |-> absPath \in files,
     contents |-> IF absPath \in files THEN MakeContents("disk", absPath) ELSE EmptyContents,
     foundHere |-> absPath]

\* tryPath: the file at dir/importedPath, or at importedPath itself when absolute
tryPath(files, dir, importedPath) ==
    readAt(files, IF IsAbs(importedPath) THEN importedPath ELSE Join(<<dir, importedPath>>))

\* the loop condition !found: the next path is tried only when this one had no file
UnlessFound(tried, next) == IF tried.found THEN tried ELSE next

\* the library paths are tried from the last entry of JPaths down to the first
RECURSIVE SearchJPaths(_, _, _, _)
SearchJPaths(files, jpaths, i, importedPath) ==
    IF i = 0 THEN [found |-> FALSE, contents |-> EmptyContents, foundHere |-> <<>>]
    ELSE UnlessFound(tryPath(files, jpaths[i], importedPath),
                     SearchJPaths(files, jpaths, i - 1, importedPath))

importResult(t, importedPath) ==
    IF t.found
    THEN [contents |-> t.contents, foundAt |-> t.foundHere, err |-> Nil]
    ELSE [contents |-> EmptyContents, foundAt |-> <<>>, err |-> NoMatchErr(importedPath)]

FileImporterImport(fi, files, importedFrom, importedPath) ==
    importResult(UnlessFound(tryPath(files, SplitDir(importedFrom), importedPath),
                             SearchJPaths(files, fi.JPaths, Len(fi.JPaths), importedPath)),
                 importedPath)

----------------------------------------------------------------------------
(* importer *)

DefaultPrefixes == <<PrefixDocUtil, PrefixGithub, PrefixRender>>

newImporter_NoJPath(opts) ==
    LET dmain == ReadFile(opts.EmbeddedFS, DocUtilMain)
        drender == ReadFile(opts.EmbeddedFS, DocUtilRender)
    IN IF dmain.err # Nil THEN [imp |-> [fi |-> [JPaths |-> <<>>], embedded |-> <<>>], err |-> dmain.err]
       ELSE IF drender.err # Nil THEN [imp |-> [fi |-> [JPaths |-> <<>>], embedded |-> <<>>], err |-> drender.err]
       ELSE [imp |-> [fi |-> [JPaths |-> <<>>],
                      embedded |-> (MainLibsonnet :> dmain.data) @@ (RenderLibsonnet :> drender.data)],
             err |-> Nil]

newImporter_RenderUnchecked(opts) ==
    LET dmain == ReadFile(opts.EmbeddedFS, DocUtilMain)
        drender == ReadFile(opts.EmbeddedFS, DocUtilRender)
    IN IF dmain.err # Nil THEN [imp |-> [fi |-> [JPaths |-> <<>>], embedded |-> <<>>], err |-> dmain.err]
       ELSE [imp |-> [fi |-> [JPaths |-> opts.JPath],
                      embedded |-> (MainLibsonnet :> dmain.data) @@ (RenderLibsonnet :> drender.data)],
             err |-> Nil]

newImporter(opts) ==
    LET dmain == ReadFile(opts.EmbeddedFS, DocUtilMain)
        drender == ReadFile(opts.EmbeddedFS, DocUtilRender)
    IN IF dmain.err # Nil THEN [imp |-> [fi |-> [JPaths |-> <<>>], embedded |-> <<>>], err |-> dmain.err]
       ELSE IF drender.err # Nil THEN [imp |-> [fi |-> [JPaths |-> <<>>], embedded |-> <<>>], err |-> drender.err]
       ELSE [imp |-> [fi |-> [JPaths |-> opts.JPath],
                      embedded |-> (MainLibsonnet :> dmain.data) @@ (RenderLibsonnet :> drender.data)],
             err |-> Nil]

embeddedLookup_Unchecked(i, fbase, fpath) ==
    IF fbase \in DOMAIN i.embedded
    THEN [contents |-> i.embedded[fbase], foundAt |-> InternalTag \o fpath, err |-> Nil,
          via |-> "embed"]
    ELSE [contents |-> EmptyContents, foundAt |-> InternalTag \o fpath, err |-> Nil,
          via |-> "embed"]

\* the lookup of loadFromEmbed, once fbase and fpath are computed
embeddedLookup(i, fbase, fpath) ==
    IF fbase \in DOMAIN i.embedded
    THEN [contents |-> i.embedded[fbase], foundAt |-> InternalTag \o fpath, err |-> Nil,
          via |-> "embed"]
    ELSE [contents |-> EmptyContents, foundAt |-> InternalTag \o fpath,
          err |-> Errorf(fpath \o DoesNotExist), via |-> "embed"]

loadFromEmbed_FullPathKey(i, importedPath) ==
    embeddedLookup(i, importedPath, Join(<<DocUtilDir, Base(importedPath)>>))

loadFromEmbed(i, importedPath) ==
    embeddedLookup(i, Base(importedPath), Join(<<DocUtilDir, Base(importedPath)>>))

\* the index of the first prefix of the list that importedPath starts with, 0 when none does
RECURSIVE FirstPrefix(_, _, _)
FirstPrefix(prefixes, k, importedPath) ==
    IF k > Len(prefixes) THEN 0
    ELSE IF HasPrefix(importedPath, prefixes[k]) THEN k
    ELSE FirstPrefix(prefixes, k + 1, importedPath)

\* what i.fi.Import returned, marked as the filesystem importer's answer
fromFileImporter(r) ==
    [contents |-> r.contents, foundAt |-> r.foundAt, err |-> r.err, via |-> "fi"]

Import_FilesystemFirst(i, files, importedFrom, importedPath) ==
    IF FirstPrefix(docUtilPathPrefixes, 1, importedPath) = 0
       \/ FileImporterImport(i.fi, files, importedFrom, importedPath).err = Nil
    THEN fromFileImporter(FileImporterImport(i.fi, files, importedFrom, importedPath))
    ELSE loadFromEmbed(i, importedPath)

Import(i, files, importedFrom, importedPath) ==
    IF FirstPrefix(docUtilPathPrefixes, 1, importedPath) # 0
    THEN loadFromEmbed(i, importedPath)
    ELSE fromFileImporter(FileImporterImport(i.fi, files, importedFrom, importedPath))

----------------------------------------------------------------------------
(* Bounds and input sets *)

MaxJPath == 2

Dirs == {DirA, DirB}
JPathLists == UNION {[1..n -> Dirs] : n \in 0..MaxJPath}

Tails == {<<>>, MainLibsonnet, RenderLibsonnet, XLibsonnet, SubDir \o MainLibsonnet, Dot, DotDot, Slash \o XLibsonnet}
PrefixedPaths == {p \o t : p \in {PrefixDocUtil, PrefixGithub, PrefixRender}, t \in Tails}
PlainPaths == {XLibsonnet, LibDir \o XLibsonnet, NearMiss \o MainLibsonnet, RenderLibsonnet,
               DirA \o Slash \o XLibsonnet, DocUtilDir}
ImportPaths == PrefixedPaths \cup PlainPaths
ImportSources == {<<>>, ExtVarMain, FromA, FromLib}

DiskFiles == {XLibsonnet, DirA \o Slash \o XLibsonnet, DirB \o Slash \o XLibsonnet,
              DirB \o Slash \o LibDir \o XLibsonnet, DocUtilMain, RenderLibsonnet}

NoCall == [from |-> <<>>, path |-> <<>>, contents |-> EmptyContents, foundAt |-> <<>>,
           err |-> Nil, via |-> "none"]

----------------------------------------------------------------------------
(* The Jsonnet VM, as far as load.go drives it *)

ImportDocUtil == ImportOpen \o DocUtilMain \o ImportClose

NoVM == [importer |-> [fi |-> [JPaths |-> <<>>], embedded |-> <<>>], ext |-> <<>>, made |-> FALSE]

\* fmt.Sprintf(`(import "%s")`, mainFName)
Sprintf(mainFName) == ImportOpen \o mainFName \o ImportClose

newVM(mainFName, opts) ==
    LET i == newImporter(opts)
    IN IF i.err # Nil THEN [vm |-> NoVM, err |-> i.err]
       ELSE [vm |-> [importer |-> i.imp, ext |-> ("main" :> Sprintf(mainFName)), made |-> TRUE],
             err |-> Nil]

ExtCode(vm, key, code) == [vm EXCEPT !.ext = (key :> code) @@ @]

\* the slot a session's VM is allocated in: jsonnet.MakeVM() returns a new VM each time
VMSlot_Pooled(p) == 1

VMSlot(p) == p

RECURSIVE FirstQuote(_, _)
FirstQuote(s, i) ==
    IF i > Len(s) THEN 0
    ELSE IF s[i] = "\"" THEN i
    ELSE FirstQuote(s, i + 1)

\* the path of an `(import "...")` expression; not ok when the text is not one
ParseImport(code) ==
    IF ~HasPrefix(code, ImportOpen) THEN [ok |-> FALSE, path |-> <<>>]
    ELSE LET rest == SubSeq(code, Len(ImportOpen) + 1, Len(code))
             q == FirstQuote(rest, 1)
         IN IF q > 0 /\ SubSeq(rest, q, Len(rest)) = ImportClose
            THEN [ok |-> TRUE, path |-> SubSeq(rest, 1, q - 1)]
            ELSE [ok |-> FALSE, path |-> <<>>]

EvalError(msg) == [kind |-> "evaluation", msg |-> msg]

\* the raw tree the drivers extract from a file, by the file's content
TreeOf(contents) ==
    IF contents.origin = "embed" THEN <<"metadata">>
    ELSE IF Base(contents.name) = OddLibsonnet THEN <<"field", "unknown">>
    ELSE IF Base(contents.name) = RenderLibsonnet THEN <<"package", "field">>
    ELSE <<"field">>

\* the JSON text of an object: one token per entry between the braces
Serialize(tree) == <<"{">> \o tree \o <<"}">>
RenderText(tree) == <<"{">> \o [k \in 1..Len(tree) |-> "page"] \o <<"}">>

evalFailed(msg, main) == [data |-> <<>>, err |-> EvalError(msg), mainValue |-> main]

\* the driver's output once the import behind std.extVar("main") has been resolved to r
evalMain(snippet, r) ==
    IF r.err # Nil THEN evalFailed(r.err.msg, EmptyContents)
    ELSE IF Base(r.contents.name) = BadLibsonnet THEN evalFailed(<<"syntax error">>, r.contents)
    ELSE [data |-> IF snippet.name = RenderLibsonnet
                   THEN RenderText(TreeOf(r.contents))
                   ELSE Serialize(TreeOf(r.contents)),
          err |-> Nil,
          mainValue |-> r.contents]

\* the external code bound to "main" is parsed, then its import goes through the VM's importer
evalExtMain(vm, files, snippet, parsed) ==
    IF ~parsed.ok THEN evalFailed(<<"syntax error">>, EmptyContents)
    ELSE evalMain(snippet, Import(vm.importer, files, ExtVarMain, parsed.path))

EvaluateAnonymousSnippet(vm, files, name, snippet) ==
    IF snippet.name = RenderLibsonnet /\ "d" \notin DOMAIN vm.ext
    THEN evalFailed(<<"undefined external variable: d">>, EmptyContents)
    ELSE evalExtMain(vm, files, snippet, ParseImport(vm.ext["main"]))

----------------------------------------------------------------------------
(* encoding/json and the transform *)

NodeKinds == {"field", "package", "metadata", "unknown"}
Recognized == {"field", "package", "metadata"}

SyntaxErr == [kind |-> "json.SyntaxError", msg |-> <<>>]
TypeErr == [kind |-> "json.UnmarshalTypeError", msg |-> <<>>]

IsObjectText(text) ==
    /\ Len(text) >= 2
    /\ text[1] = "{"
    /\ text[Len(text)] = "}"
    /\ \A k \in 2..(Len(text) - 1) : text[k] \notin {"{", "}"}

\* json.Unmarshal into ds, a map[string]interface{}
UnmarshalDs(text) ==
    IF IsObjectText(text)
    THEN [d |-> SubSeq(text, 2, Len(text) - 1), err |-> Nil]
    ELSE [d |-> <<>>, err |-> SyntaxErr]

\* json.Unmarshal into map[string]string
UnmarshalStringMap(text) ==
    IF ~IsObjectText(text) THEN [out |-> <<>>, err |-> SyntaxErr]
    ELSE LET entries == SubSeq(text, 2, Len(text) - 1)
             IsPage(e) == e = "page"
         IN [out |-> SelectSeq(entries, IsPage),
             err |-> IF \A k \in 1..Len(entries) : entries[k] = "page" THEN Nil ELSE TypeErr]

\* fastLoad returns a Package and nothing else: on a node of no recognized kind
\* it can only panic or leave the node out
FastLoadOnUnknown == {"panic", "drop"}

fastLoad(d, onUnknown) ==
    LET IsRecognized(n) == n \in Recognized
        known == SelectSeq(d, IsRecognized)
    IN IF known # d /\ onUnknown = "panic"
       THEN [pkg |-> <<>>, panicked |-> TRUE]
       ELSE [pkg |-> [k \in 1..Len(known) |-> [kind |-> known[k]]], panicked |-> FALSE]

----------------------------------------------------------------------------
(* Invocations of the public entry points *)

NumInvocations == 2
MaxNodes == 2

NilOut == [type |-> "nil", val |-> <<>>]
Bytes(text) == [type |-> "bytes", val |-> text]
PackagePtr(pkg) == [type |-> "Package", val |-> pkg]
StringMap(m) == [type |-> "map", val |-> m]

Idle == [pc |-> "idle", kind |-> "none", filename |-> <<>>, driver |-> EmptyContents,
         data |-> <<>>, d |-> <<>>, evaluated |-> FALSE, evalErr |-> Nil,
         decoded |-> FALSE, mainValue |-> EmptyContents, out |-> NilOut, err |-> Nil]

Opts == [JPath |-> JPath, EmbeddedFS |-> embeddedFS]

PipelineDisk == {XLibsonnet, RenderLibsonnet, BadLibsonnet, OddLibsonnet,
                 PrefixDocUtil \o XLibsonnet}
EntryFiles == {XLibsonnet, PrefixRender, BadLibsonnet, OddLibsonnet,
               PrefixDocUtil \o XLibsonnet, LibDir \o XLibsonnet}
ConcurrentEntryFiles == {XLibsonnet, PrefixRender, BadLibsonnet}

Trees == UNION {[1..n -> NodeKinds] : n \in 0..MaxNodes}
RawTexts == {Serialize(t) : t \in Trees} \cup {<<>>, <<"{", "field">>}

\* Extract and RenderWithJsonnet, run from start to end without interruption
extractEvaluated(e) ==
    IF e.err # Nil THEN [out |-> NilOut, err |-> e.err]
    ELSE [out |-> Bytes(e.data), err |-> Nil]

extractOn(v, files, load) ==
    IF v.err # Nil THEN [out |-> NilOut, err |-> v.err]
    ELSE extractEvaluated(EvaluateAnonymousSnippet(v.vm, files, LoadLibsonnet, load))

Extract(filename, opts, files) ==
    IF ReadFile(opts.EmbeddedFS, LoadLibsonnet).err # Nil
    THEN [out |-> NilOut, err |-> ReadFile(opts.EmbeddedFS, LoadLibsonnet).err]
    ELSE extractOn(newVM(filename, opts), files, ReadFile(opts.EmbeddedFS, LoadLibsonnet).data)

renderDecoded(u) == [out |-> StringMap(u.out), err |-> u.err]

renderEvaluated(e) ==
    IF e.err # Nil THEN [out |-> NilOut, err |-> e.err]
    ELSE renderDecoded(UnmarshalStringMap(e.data))

renderOn(v, files, render) ==
    IF v.err # Nil THEN [out |-> NilOut, err |-> v.err]
    ELSE renderEvaluated(EvaluateAnonymousSnippet(ExtCode(v.vm, "d", ImportDocUtil), files,
                                                  RenderLibsonnet, render))

RenderWithJsonnet(filename, opts, files) ==
    IF ReadFile(opts.EmbeddedFS, RenderLibsonnet).err # Nil
    THEN [out |-> NilOut, err |-> ReadFile(opts.EmbeddedFS, RenderLibsonnet).err]
    ELSE renderOn(newVM(filename, opts), files, ReadFile(opts.EmbeddedFS, RenderLibsonnet).data)

DriverName(kind) == IF kind = "RenderWithJsonnet" THEN RenderLibsonnet ELSE LoadLibsonnet

\* where an entry point goes once the evaluation has returned
AfterEvaluate_IgnoreError(kind, err) ==
    CASE kind = "Extract" -> "done"
      [] kind = "Load" -> "transformDecode"
      [] kind = "RenderWithJsonnet" -> "unmarshal"

AfterEvaluate(kind, err) ==
    IF err # Nil THEN "done"
    ELSE CASE kind = "Extract" -> "done"
           [] kind = "Load" -> "transformDecode"
           [] kind = "RenderWithJsonnet" -> "unmarshal"

Running(p) == ~exited /\ p \in DOMAIN inv

CallOn(p, kinds, files) ==
    /\ Running(p)
    /\ inv[p].pc = "idle"
    /\ \/ \E kind \in kinds \ {"Transform"}, filename \in files :
            inv' = [inv EXCEPT ![p] = [Idle EXCEPT !.pc = "readDriver", !.kind = kind,
                                                   !.filename = filename]]
       \/ /\ "Transform" \in kinds
          /\ \E text \in RawTexts :
                inv' = [inv EXCEPT ![p] = [Idle EXCEPT !.pc = "transformDecode",
                                                       !.kind = "Transform", !.data = text]]
    /\ UNCHANGED <<fs, JPath, embeddedFS, docUtilPathPrefixes, resolver, imp, vms, exited>>

Call(p) == CallOn(p, {"Extract", "Load", "RenderWithJsonnet", "Transform"}, EntryFiles)

CallConcurrent(p) == CallOn(p, {"Extract", "RenderWithJsonnet"}, ConcurrentEntryFiles)

\* opts.EmbeddedFS.ReadFile of the entry point's driver
ReadDriver(p) ==
    /\ Running(p)
    /\ inv[p].pc = "readDriver"
    /\ LET r == ReadFile(Opts.EmbeddedFS, DriverName(inv[p].kind))
       IN inv' = [inv EXCEPT ![p] = IF r.err # Nil
                                    THEN [@ EXCEPT !.pc = "done", !.err = r.err]
                                    ELSE [@ EXCEPT !.pc = "newVM", !.driver = r.data]]
    /\ UNCHANGED <<fs, JPath, embeddedFS, docUtilPathPrefixes, resolver, imp, vms, exited>>

NewVM(p) ==
    /\ Running(p)
    /\ inv[p].pc = "newVM"
    /\ LET v == newVM(inv[p].filename, Opts)
       IN IF v.err # Nil
          THEN /\ inv' = [inv EXCEPT ![p] = [@ EXCEPT !.pc = "done", !.err = v.err]]
               /\ vms' = vms
          ELSE /\ inv' = [inv EXCEPT ![p] = [@ EXCEPT !.pc =
                              IF inv[p].kind = "RenderWithJsonnet" THEN "extCode" ELSE "evaluate"]]
               /\ vms' = [vms EXCEPT ![VMSlot(p)] = v.vm]
    /\ UNCHANGED <<fs, JPath, embeddedFS, docUtilPathPrefixes, resolver, imp, exited>>

\* vm.ExtCode("d", `(import "doc-util/main.libsonnet")`)
ExtCodeD(p) ==
    /\ Running(p)
    /\ inv[p].pc = "extCode"
    /\ vms' = [vms EXCEPT ![VMSlot(p)] = ExtCode(@, "d", ImportDocUtil)]
    /\ inv' = [inv EXCEPT ![p] = [@ EXCEPT !.pc = "evaluate"]]
    /\ UNCHANGED <<fs, JPath, embeddedFS, docUtilPathPrefixes, resolver, imp, exited>>

Evaluate(p) ==
    /\ Running(p)
    /\ inv[p].pc = "evaluate"
    /\ \E e \in {EvaluateAnonymousSnippet(vms[VMSlot(p)], fs, DriverName(inv[p].kind),
                                          inv[p].driver)} :
          inv' = [inv EXCEPT ![p] =
                    [@ EXCEPT !.pc = AfterEvaluate(inv[p].kind, e.err),
                              !.evaluated = TRUE,
                              !.evalErr = e.err,
                              !.mainValue = e.mainValue,
                              !.data = e.data,
                              !.out = IF inv[p].kind = "Extract" /\ e.err = Nil
                                      THEN Bytes(e.data) ELSE NilOut,
                              !.err = e.err]]
    /\ UNCHANGED <<fs, JPath, embeddedFS, docUtilPathPrefixes, resolver, imp, vms, exited>>

\* RenderWithJsonnet: json.Unmarshal of the rendered text, returned with its error
UnmarshalOut(p) ==
    /\ Running(p)
    /\ inv[p].pc = "unmarshal"
    /\ LET u == UnmarshalStringMap(inv[p].data)
       IN inv' = [inv EXCEPT ![p] = [@ EXCEPT !.pc = "done", !.decoded = TRUE,
                                              !.out = StringMap(u.out), !.err = u.err]]
    /\ UNCHANGED <<fs, JPath, embeddedFS, docUtilPathPrefixes, resolver, imp, vms, exited>>

\* Transform: json.Unmarshal into ds; log.Fatalln ends the process on an error
TransformDecode(p) ==
    /\ Running(p)
    /\ inv[p].pc = "transformDecode"
    /\ LET u == UnmarshalDs(inv[p].data)
       IN IF u.err # Nil
          THEN /\ inv' = [inv EXCEPT ![p] = [@ EXCEPT !.pc = "fatal", !.decoded = TRUE]]
               /\ exited' = TRUE
          ELSE /\ inv' = [inv EXCEPT ![p] = [@ EXCEPT !.pc = "fastLoad", !.decoded = TRUE,
                                                      !.d = u.d]]
               /\ exited' = exited
    /\ UNCHANGED <<fs, JPath, embeddedFS, docUtilPathPrefixes, resolver, imp, vms>>

\* Transform: p := fastLoad(d); return &p, nil
FastLoad(p) ==
    /\ Running(p)
    /\ inv[p].pc = "fastLoad"
    /\ \E onUnknown \in FastLoadOnUnknown :
          LET f == fastLoad(inv[p].d, onUnknown)
          IN IF f.panicked
             THEN /\ inv' = [inv EXCEPT ![p] = [@ EXCEPT !.pc = "panic"]]
                  /\ exited' = TRUE
             ELSE /\ inv' = [inv EXCEPT ![p] = [@ EXCEPT !.pc = "done",
                                                         !.out = PackagePtr(f.pkg),
                                                         !.err = Nil]]
                  /\ exited' = exited
    /\ UNCHANGED <<fs, JPath, embeddedFS, docUtilPathPrefixes, resolver, imp, vms>>

\* the caller has the result; the session's VM is garbage
Return(p) ==
    /\ Running(p)
    /\ inv[p].pc = "done"
    /\ inv' = [inv EXCEPT ![p] = Idle]
    /\ vms' = [vms EXCEPT ![VMSlot(p)] = NoVM]
    /\ UNCHANGED <<fs, JPath, embeddedFS, docUtilPathPrefixes, resolver, imp, exited>>

----------------------------------------------------------------------------
(* A direct call of the importer *)

ResolverImport ==
    /\ imp = NoCall
    /\ \E importedFrom \in ImportSources, importedPath \in ImportPaths :
          \E r \in {Import(resolver, fs, importedFrom, importedPath)} :
             imp' = [from |-> importedFrom, path |-> importedPath, contents |-> r.contents,
                     foundAt |-> r.foundAt, err |-> r.err, via |-> r.via]
    /\ UNCHANGED <<fs, JPath, embeddedFS, docUtilPathPrefixes, resolver, inv, vms, exited>>

\* the evaluator has taken the answer; the importer is ready for its next call
ResolverReturn ==
    /\ imp # NoCall
    /\ imp' = NoCall
    /\ UNCHANGED <<fs, JPath, embeddedFS, docUtilPathPrefixes, resolver, inv, vms, exited>>

----------------------------------------------------------------------------
(* Specifications *)

\* one caller, every entry point, one invocation after the other
Init ==
    /\ fs = PipelineDisk
    /\ JPath = <<>>
    /\ embeddedFS \in SUBSET RequiredResources
    /\ docUtilPathPrefixes = DefaultPrefixes
    /\ resolver = NoVM.importer
    /\ imp = NoCall
    /\ inv = [p \in {1} |-> Idle]
    /\ vms = [p \in {1} |-> NoVM]
    /\ exited = FALSE

Next ==
    \/ \E p \in DOMAIN inv : Call(p)
    \/ \E p \in DOMAIN inv : ReadDriver(p)
    \/ \E p \in DOMAIN inv : NewVM(p)
    \/ \E p \in DOMAIN inv : ExtCodeD(p)
    \/ \E p \in DOMAIN inv : Evaluate(p)
    \/ \E p \in DOMAIN inv : UnmarshalOut(p)
    \/ \E p \in DOMAIN inv : TransformDecode(p)
    \/ \E p \in DOMAIN inv : FastLoad(p)
    \/ \E p \in DOMAIN inv : Return(p)

Spec == Init /\ [][Next]_vars

\* concurrent invocations of Extract and RenderWithJsonnet
InitConcurrent ==
    /\ fs = PipelineDisk
    /\ JPath = <<>>
    /\ embeddedFS \in {RequiredResources, RequiredResources \ {RenderLibsonnet}}
    /\ docUtilPathPrefixes = DefaultPrefixes
    /\ resolver = NoVM.importer
    /\ imp = NoCall
    /\ inv = [p \in 1..NumInvocations |-> Idle]
    /\ vms = [p \in 1..NumInvocations |-> NoVM]
    /\ exited = FALSE

NextConcurrent ==
    \/ \E p \in DOMAIN inv : CallConcurrent(p)
    \/ \E p \in DOMAIN inv : ReadDriver(p)
    \/ \E p \in DOMAIN inv : NewVM(p)
    \/ \E p \in DOMAIN inv : ExtCodeD(p)
    \/ \E p \in DOMAIN inv : Evaluate(p)
    \/ \E p \in DOMAIN inv : UnmarshalOut(p)

SpecConcurrent == InitConcurrent /\ [][NextConcurrent]_vars

\* the importer alone, over every disk and search path
InitResolver ==
    /\ fs \in SUBSET DiskFiles
    /\ JPath \in JPathLists
    /\ embeddedFS = RequiredResources
    /\ docUtilPathPrefixes = DefaultPrefixes
    /\ resolver = newImporter([JPath |-> JPath, EmbeddedFS |-> RequiredResources]).imp
    /\ imp = NoCall
    /\ inv = [p \in {1} |-> Idle]
    /\ vms = [p \in {1} |-> NoVM]
    /\ exited = FALSE

NextResolver == ResolverImport \/ ResolverReturn

SpecResolver == InitResolver /\ [][NextResolver]_vars

----------------------------------------------------------------------------
(* Properties of the importer, under SpecResolver *)

MatchesPrefix(path) ==
    \E k \in 1..Len(docUtilPathPrefixes) : HasPrefix(path, docUtilPathPrefixes[k])

\* C1: a call of Import whose importedPath starts with an entry of
\* docUtilPathPrefixes is answered from the bundled resources and never reaches
\* the filesystem importer, whatever the importing file, the search paths and
\* the files on disk are.
C1_InternalNeverFilesystem ==
    (imp # NoCall /\ MatchesPrefix(imp.path)) =>
        /\ imp.via = "embed"
        /\ imp.contents.origin # "disk"

\* doc-util/main.libsonnet is imported while a file of that name is on disk
C1_Witness ==
    /\ imp.path = DocUtilMain
    /\ DocUtilMain \in fs
    /\ imp.via = "embed"
    /\ imp.err = Nil

\* where importedPath is looked for under the directory dir
Candidate(dir, importedPath) ==
    IF IsAbs(importedPath) THEN importedPath ELSE Join(<<dir, importedPath>>)

\* the entries of the search path under which importedPath is a file
Hits(importedPath) == {k \in 1..Len(JPath) : Candidate(JPath[k], importedPath) \in fs}

Min(S) == CHOOSE k \in S : \A j \in S : k <= j
Max(S) == CHOOSE k \in S : \A j \in S : k >= j

\* the answer of a search that tries the importing file's directory and then
\* the entry of the search path that pick selects among those that have the file
SearchAnswer(from, path, pick(_)) ==
    IF Candidate(SplitDir(from), path) \in fs
    THEN [contents |-> MakeContents("disk", Candidate(SplitDir(from), path)),
          foundAt |-> Candidate(SplitDir(from), path), err |-> Nil]
    ELSE IF Hits(path) # {}
    THEN [contents |-> MakeContents("disk", Candidate(JPath[pick(Hits(path))], path)),
          foundAt |-> Candidate(JPath[pick(Hits(path))], path), err |-> Nil]
    ELSE [contents |-> EmptyContents, foundAt |-> <<>>, err |-> NoMatchErr(path)]

ImpAnswer == [contents |-> imp.contents, foundAt |-> imp.foundAt, err |-> imp.err]

EndsWithElement(path, name) ==
    LET s == StripTrailingSlashes(path)
    IN \/ s = name
       \/ /\ Len(s) > Len(name)
          /\ SubSeq(s, Len(s) - Len(name), Len(s)) = Slash \o name

Bundled == {MainLibsonnet, RenderLibsonnet}

\* C4: an import that matches an internal prefix is looked up by its last path
\* element alone: when that is main.libsonnet or render.libsonnet the answer is
\* the bundled doc-util file of that name at "<internal>/doc-util/<name>", and
\* otherwise there is no hit; the importing file, the search path, the disk,
\* the prefix that matched and the directories in between do not matter.
C4_LookupByBaseName ==
    (imp # NoCall /\ MatchesPrefix(imp.path)) =>
        /\ \A name \in Bundled :
              EndsWithElement(imp.path, name) =>
                  /\ imp.err = Nil
                  /\ imp.contents = MakeContents("embed", PrefixDocUtil \o name)
                  /\ imp.foundAt = InternalTag \o PrefixDocUtil \o name
        /\ (\A name \in Bundled : ~EndsWithElement(imp.path, name)) => imp.err # Nil

\* the long prefix with a directory in between, imported from a file in /b/lib
C4_Witness ==
    /\ imp.path = PrefixGithub \o SubDir \o MainLibsonnet
    /\ imp.from = FromLib
    /\ imp.contents = MakeContents("embed", DocUtilMain)
    /\ imp.foundAt = InternalTag \o DocUtilMain

Miss == imp # NoCall /\ MatchesPrefix(imp.path) /\ Base(imp.path) \notin Bundled

\* C5 as stated: when an internal prefix matches and the base name is not a
\* bundled resource, the error names the internal doc-util path, the location
\* starts with "<internal>/", the contents are empty and the filesystem is not
\* tried.
C5_ErrorNamesDocUtilPath ==
    Miss =>
        /\ imp.err.kind = "errorf"
        /\ HasPrefix(imp.err.msg, DocUtilDir)
        /\ HasPrefix(imp.foundAt, InternalTag)
        /\ imp.contents = EmptyContents
        /\ imp.via = "embed"

\* the path that the error of a miss names
MissPath(base) ==
    IF base = DotDot THEN Dot
    ELSE IF base = Dot THEN DocUtilDir
    ELSE PrefixDocUtil \o base

\* C5 amended: when an internal prefix matches and the base name is not a
\* bundled resource, Import returns empty contents and an error that no
\* filesystem lookup produces: its message is "<p> does not exist" and its
\* location "<internal>/<p>", where p is "doc-util/<base name>", but "doc-util"
\* for the base name "." and "." for the base name ".."; the filesystem is not
\* tried.
C5_MissIsInternalError ==
    Miss =>
        /\ imp.err = Errorf(MissPath(Base(imp.path)) \o DoesNotExist)
        /\ imp.err.kind # NoMatchErr(imp.path).kind
        /\ imp.foundAt = InternalTag \o MissPath(Base(imp.path))
        /\ imp.contents = EmptyContents
        /\ imp.via = "embed"

\* doc-util/x.libsonnet is not bundled
C5_Witness ==
    /\ imp.path = PrefixDocUtil \o XLibsonnet
    /\ imp.err = Errorf(PrefixDocUtil \o XLibsonnet \o DoesNotExist)
    /\ imp.foundAt = InternalTag \o PrefixDocUtil \o XLibsonnet

----------------------------------------------------------------------------
(* Properties of the entry points, under Spec *)

\* C2: no entry point ends the process: whatever the input, Transform, Load,
\* Extract and RenderWithJsonnet return to their caller.
C2_ProcessNeverTerminated ==
    /\ ~exited
    /\ \A p \in DOMAIN inv : inv[p].pc \notin {"fatal", "panic"}

HasUnknown(d) == \E k \in 1..Len(d) : d[k] \notin Recognized

\* C6: when the decoded raw tree has a node of no recognized kind, Transform
\* returns an error to its caller.
C6_UnknownKindIsError ==
    \A p \in DOMAIN inv :
        (inv[p].pc \in {"done", "panic"} /\ inv[p].decoded /\ HasUnknown(inv[p].d)) =>
            /\ inv[p].pc = "done"
            /\ inv[p].err # Nil

EvaluationStarted(p) == inv[p].pc \in {"extCode", "evaluate"} \/ inv[p].evaluated

Reads(kind) == {DriverName(kind), DocUtilMain, DocUtilRender}

C8_MainIsEntryFile ==
    \A p \in DOMAIN inv :
        (inv[p].evaluated /\ Candidate(<<>>, inv[p].filename) \in fs) =>
            inv[p].mainValue = MakeContents("disk", Candidate(<<>>, inv[p].filename))

\* C9: when the evaluation fails, the entry point returns that error and no
\* result, and neither the JSON decoding nor Transform runs.
C9_EvaluationErrorReturned ==
    \A p \in DOMAIN inv :
        (inv[p].evaluated /\ inv[p].evalErr # Nil) =>
            /\ inv[p].pc = "done"
            /\ inv[p].err = inv[p].evalErr
            /\ inv[p].out = NilOut
            /\ ~inv[p].decoded

\* Load of a file whose import fails in the resolver
C9_Witness ==
    \E p \in DOMAIN inv :
        /\ inv[p].kind = "Load"
        /\ inv[p].filename = PrefixDocUtil \o XLibsonnet
        /\ inv[p].evaluated
        /\ inv[p].pc = "done"
        /\ inv[p].err = EvalError(PrefixDocUtil \o XLibsonnet \o DoesNotExist)

----------------------------------------------------------------------------
(* Concurrent invocations, under SpecConcurrent *)

Alone(kind, filename) ==
    IF kind = "Extract" THEN Extract(filename, Opts, fs)
    ELSE RenderWithJsonnet(filename, Opts, fs)

\* C10: concurrent invocations of Extract and RenderWithJsonnet do not
\* interfere: each returns what it returns when run alone, each VM is written
\* only by the invocation that made it, and the embedded resources, the prefix
\* list and the disk are never written.
C10_InvocationsIndependent ==
    /\ [](\A p \in DOMAIN inv :
             inv[p].pc = "done" =>
                 [out |-> inv[p].out, err |-> inv[p].err] = Alone(inv[p].kind, inv[p].filename))
    /\ [][/\ embeddedFS' = embeddedFS
          /\ docUtilPathPrefixes' = docUtilPathPrefixes
          /\ fs' = fs
          /\ \A q \in DOMAIN vms : vms'[q] # vms[q] => inv'[q] # inv[q]]_vars

\* one invocation has its result while the session of another is live
C10_Witness ==
    /\ inv[1].pc = "done"
    /\ inv[1].evaluated
    /\ inv[1].err = Nil
    /\ inv[2].pc = "evaluate"
    /\ vms[2].made
    /\ inv[2].filename # inv[1].filename

====
